---- MODULE Spec2Model ----
(***************************************************************************)
(* Model of prompting/validators/reward/relevance.py:                      *)
(*   RelevanceRewardModel (get_rewards, reward, normalize_rewards) and      *)
(*   BertRelevanceRewardModel.reward.                                       *)
(*                                                                         *)
(* Scores handed to the composer are kept in units of 1/10000, so the       *)
(* thresholds -0.0246 and 0.3 are the integers -246 and 3000.               *)
(***************************************************************************)
EXTENDS Integers, Sequences, FiniteSets, TLC

VARIABLES
    bertTable,      \* BertRelevanceRewardModel.reward(prompt, c) for each completion c
    mpnetTable,     \* MpnetRelevenceModel.reward(prompt, c) for each completion c
    pc,             \* position of the composer's single thread
    completions,    \* argument of the running get_rewards call
    k,              \* position of the list comprehension in completions (1-based)
    reward_events,  \* list built by the comprehension of get_rewards
    reward_event,   \* local of reward(): the event under construction (fresh outside reward())
    i,              \* enumerate index of the loop in reward() (1-based)
    diff,           \* local of reward(): the score just returned by models[i]
    result,         \* Some(list) the last get_rewards call returned, or Nothing
    outcome,        \* "none" | "returned" | "raised": how the last call ended
    trace,          \* scorer invocations of the current call: <<k, model name>>
    gates,          \* threshold checks of the current call: <<k, model name, bound>>
    first,          \* per completion, the first event reward() returned for it
    last,           \* <<completion, event>> of the latest return of reward()
    normIn,         \* argument of the last normalize_rewards call
    normOut,        \* value returned by the last normalize_rewards call
    emb,            \* BertRelevanceRewardModel.get_embedding, per text
    bargs,          \* <<prompt, completion>> of the last BertRelevanceRewardModel.reward
    bscore          \* value it returned

composerVars == <<bertTable, mpnetTable, pc, completions, k, reward_events,
                  reward_event, i, diff, result, outcome, trace, gates, first, last>>
normVars == <<normIn, normOut>>
bertVars == <<emb, bargs, bscore>>
vars == <<composerVars, normVars, bertVars>>

----------------------------------------------------------------------------
(* Bounds of the model *)

MaxLen == 2          \* longest completions list passed to get_rewards
MaxNorm == 2         \* longest tensor passed to normalize_rewards
MaxRewardVal == 1    \* largest entry of a tensor passed to normalize_rewards
Dim == 2             \* dimension of an embedding vector
MaxComp == 3         \* largest magnitude of an embedding component, in ulps
MinSubnormalInv == 16 \* 1 / (smallest positive float), the ulp of the toy format

\* the prompt of every call is the same text; the completions scored against it
Completions == {"c1", "c2"}
\* the texts handed to the Token-Distance scorer
Texts == {"p", "c1"}

\* Python's None in a float field or local, and the outcome "the scorer
\* raises" in a table: two numbers outside every set of scores
None == -1000000
Fail == 1000000

\* an optional value: nothing, or one value
Nothing == <<>>
Some(x) == <<x>>

\* raw scores around the two thresholds: below, equal, above
BertScores == {-247, -246, 0}
MpnetScores == {2999, 3000, 10000}

----------------------------------------------------------------------------
(* RelevanceRewardModel *)

\* RewardModelType.relevance_bert.value and RewardModelType.relevance_mpnet.value
BertName == "relevance_bert"
MpnetName == "relevance_mpnet"

\* variant: the two scorers registered in the other order
models_Swapped == <<MpnetName, BertName>>

\* self.models, each scorer by its name property
models == <<BertName, MpnetName>>

\* self.bounds
bounds == <<-246, 3000>>

\* default of BaseRewardEvent.reward
BaseRewardEvent_reward == 1

\* RelevanceRewardEvent()
RelevanceRewardEvent ==
    [reward |-> BaseRewardEvent_reward, bert_score |-> None,
     mpnet_score |-> None, is_filter_model |-> TRUE]

\* model.reward(prompt, completion) for model = self.models[m]
ModelReward(m, c) ==
    IF models[m] = BertName THEN bertTable[c] ELSE mpnetTable[c]

\* variant: a score equal to its bound rejects too
Gate_Le(ev, d, b) ==
    IF d <= b THEN [ev EXCEPT !.reward = 0] ELSE ev

\* variant: every check writes its own verdict
Gate_Reset(ev, d, b) ==
    [ev EXCEPT !.reward = IF d < b THEN 0 ELSE 1]

\* if diff < self.bounds[i]: reward_event.reward = 0
Gate(ev, d, b) ==
    IF d < b THEN [ev EXCEPT !.reward = 0] ELSE ev

\* variant: a rejected event gets no further score
RecordScore_Skip(ev, name, d) ==
    IF ev.reward = 0 THEN ev
    ELSE IF name = "relevance_bert" THEN [ev EXCEPT !.bert_score = d]
    ELSE IF name = "relevance_mpnet" THEN [ev EXCEPT !.mpnet_score = d]
    ELSE ev

\* variant: the two fields exchanged
RecordScore_Swapped(ev, name, d) ==
    IF name = "relevance_bert" THEN [ev EXCEPT !.mpnet_score = d]
    ELSE IF name = "relevance_mpnet" THEN [ev EXCEPT !.bert_score = d]
    ELSE ev

\* if model.name == "relevance_bert": ... elif model.name == "relevance_mpnet": ...
RecordScore(ev, name, d) ==
    IF name = "relevance_bert" THEN [ev EXCEPT !.bert_score = d]
    ELSE IF name = "relevance_mpnet" THEN [ev EXCEPT !.mpnet_score = d]
    ELSE ev

\* variant: the newest event goes to the front
AppendEvent_Front(events, ev) == <<ev>> \o events

\* the comprehension of get_rewards adds the event reward() returned
AppendEvent(events, ev) == Append(events, ev)

\* variant: the rewards are shifted so that the smallest becomes 0
normalize_rewards_Shift(rewards) ==
    [j \in 1..Len(rewards) |->
        rewards[j] - (CHOOSE m \in 0..MaxRewardVal :
                        /\ \E h \in 1..Len(rewards) : rewards[h] = m
                        /\ \A h \in 1..Len(rewards) : rewards[h] >= m)]

\* normalize_rewards(rewards)
normalize_rewards(rewards) == rewards

\* reward(prompt, c) as a function: the loop over self.models from model m on
RECURSIVE RewardLoop(_, _, _)
RewardLoop(ev, m, c) ==
    IF m > Len(models) THEN ev
    ELSE RewardLoop(RecordScore(Gate(ev, ModelReward(m, c), bounds[m]),
                                models[m], ModelReward(m, c)),
                    m + 1, c)

\* the event reward(prompt, c) returns when no scorer raises
score_one(c) == RewardLoop(RelevanceRewardEvent, 1, c)

ZeroEmb == [t \in Texts |-> [d \in 1..Dim |-> 0]]


Init ==
    /\ bertTable \in [Completions -> BertScores \cup {Fail}]
    /\ mpnetTable \in [Completions -> MpnetScores \cup {Fail}]
    /\ pc = "idle"
    /\ completions = <<>>
    /\ k = 1
    /\ reward_events = <<>>
    /\ reward_event = RelevanceRewardEvent
    /\ i = 1
    /\ diff = None
    /\ result = Nothing
    /\ outcome = "none"
    /\ trace = <<>>
    /\ gates = <<>>
    /\ first = [c \in Completions |-> Nothing]
    /\ last = Nothing
    /\ normIn = <<>>
    /\ normOut = <<>>
    /\ emb = ZeroEmb
    /\ bargs = Nothing
    /\ bscore = None

\* get_rewards is entered: the comprehension starts on its argument
GetRewards ==
    /\ pc = "idle"
    /\ \E n \in 0..MaxLen : \E cs \in [1..n -> Completions] :
          completions' = cs
    /\ k' = 1
    /\ reward_events' = <<>>
    /\ reward_event' = RelevanceRewardEvent
    /\ i' = 1
    /\ diff' = None
    /\ result' = Nothing
    /\ outcome' = "none"
    /\ trace' = <<>>
    /\ gates' = <<>>
    /\ last' = Nothing
    /\ normIn' = <<>>
    /\ normOut' = <<>>
    /\ pc' = "next"
    /\ UNCHANGED <<bertTable, mpnetTable, first, bertVars>>

\* the comprehension is exhausted: return reward_events
Return ==
    /\ pc = "next"
    /\ k > Len(completions)
    /\ result' = Some(reward_events)
    /\ outcome' = "returned"
    /\ reward_events' = <<>>
    /\ pc' = "idle"
    /\ UNCHANGED <<bertTable, mpnetTable, completions, k, reward_event, i, diff,
                   trace, gates, first, last, normVars, bertVars>>

\* variant: the event keeps the reward of the event returned before it
BeginReward_Reuse ==
    /\ pc = "next"
    /\ k <= Len(completions)
    /\ reward_event' = IF last = Nothing THEN RelevanceRewardEvent
                       ELSE [RelevanceRewardEvent EXCEPT !.reward = last[2].reward]
    /\ i' = 1
    /\ diff' = None
    /\ pc' = "score"
    /\ UNCHANGED <<bertTable, mpnetTable, completions, k, reward_events, result,
                   outcome, trace, gates, first, last, normVars, bertVars>>

\* reward() is entered for completions[k]: reward_event = RelevanceRewardEvent()
BeginReward ==
    /\ pc = "next"
    /\ k <= Len(completions)
    /\ reward_event' = RelevanceRewardEvent
    /\ i' = 1
    /\ diff' = None
    /\ pc' = "score"
    /\ UNCHANGED <<bertTable, mpnetTable, completions, k, reward_events, result,
                   outcome, trace, gates, first, last, normVars, bertVars>>

\* diff = model.reward(prompt, completion), the scorer returns
ScorerReturns ==
    /\ pc = "score"
    /\ ModelReward(i, completions[k]) # Fail
    /\ diff' = ModelReward(i, completions[k])
    /\ trace' = Append(trace, <<k, models[i]>>)
    /\ pc' = "check"
    /\ UNCHANGED <<bertTable, mpnetTable, completions, k, reward_events,
                   reward_event, i, result, outcome, gates, first, last,
                   normVars, bertVars>>

\* variant: reward() catches the failure and returns a rejected event
ScorerRaises_Fallback ==
    /\ pc = "score"
    /\ ModelReward(i, completions[k]) = Fail
    /\ trace' = Append(trace, <<k, models[i]>>)
    /\ reward_event' = [reward_event EXCEPT !.reward = 0]
    /\ pc' = "ret"
    /\ UNCHANGED <<bertTable, mpnetTable, completions, k, reward_events, i, diff,
                   result, outcome, gates, first, last, normVars, bertVars>>

\* diff = model.reward(prompt, completion), the scorer raises: nothing in
\* reward() or get_rewards() catches, both frames are unwound
ScorerRaises ==
    /\ pc = "score"
    /\ ModelReward(i, completions[k]) = Fail
    /\ trace' = Append(trace, <<k, models[i]>>)
    /\ result' = Nothing
    /\ outcome' = "raised"
    /\ reward_events' = <<>>
    /\ reward_event' = RelevanceRewardEvent
    /\ diff' = None
    /\ pc' = "idle"
    /\ UNCHANGED <<bertTable, mpnetTable, completions, k, i, gates, first, last,
                   normVars, bertVars>>

\* the threshold check of the loop body
Check ==
    /\ pc = "check"
    /\ reward_event' = Gate(reward_event, diff, bounds[i])
    /\ gates' = Append(gates, <<k, models[i], bounds[i]>>)
    /\ pc' = "record"
    /\ UNCHANGED <<bertTable, mpnetTable, completions, k, reward_events, i, diff,
                   result, outcome, trace, first, last, normVars, bertVars>>

\* the score is stored in the event; the loop goes on or ends
Record ==
    /\ pc = "record"
    /\ reward_event' = RecordScore(reward_event, models[i], diff)
    /\ IF i < Len(models)
          THEN i' = i + 1 /\ pc' = "score"
          ELSE i' = i /\ pc' = "ret"
    /\ UNCHANGED <<bertTable, mpnetTable, completions, k, reward_events, diff,
                   result, outcome, trace, gates, first, last, normVars, bertVars>>

\* return reward_event; the comprehension takes it and moves on
RewardReturn ==
    /\ pc = "ret"
    /\ reward_events' = AppendEvent(reward_events, reward_event)
    /\ first' = IF first[completions[k]] = Nothing
                   THEN [first EXCEPT ![completions[k]] = Some(reward_event)]
                   ELSE first
    /\ last' = <<completions[k], reward_event>>
    /\ k' = k + 1
    /\ reward_event' = RelevanceRewardEvent
    /\ diff' = None
    /\ pc' = "next"
    /\ UNCHANGED <<bertTable, mpnetTable, completions, i, result, outcome,
                   trace, gates, normVars, bertVars>>

\* normalize_rewards is called between two scoring calls
Normalize ==
    /\ pc = "idle"
    /\ \E n \in 0..MaxNorm : \E r \in [1..n -> 0..MaxRewardVal] :
          /\ normIn' = r
          /\ normOut' = normalize_rewards(r)
    /\ UNCHANGED <<composerVars, bertVars>>

Next ==
    \/ GetRewards
    \/ Return
    \/ BeginReward
    \/ ScorerReturns
    \/ ScorerRaises
    \/ Check
    \/ Record
    \/ RewardReturn
    \/ Normalize

Spec == Init /\ [][Next]_vars

----------------------------------------------------------------------------
(* BertRelevanceRewardModel.reward                                          *)
(*                                                                         *)
(* The tensors are float32.  A component is kept as an integer number of    *)
(* ulps of the smallest positive float, 1/MinSubnormalInv (2^-149 in        *)
(* float32): near zero floats are exactly the multiples of that ulp, a      *)
(* difference of two of them is exact, and a product, a quotient or a root  *)
(* is rounded to the nearest multiple, ties to even.  get_embedding returns *)
(* the mean of L2-normalized chunk embeddings, which can be any vector of   *)
(* the unit ball, the small ones included.                                  *)

\* n / d rounded to the nearest integer, ties to even (n >= 0, d > 0)
RoundDiv(n, d) ==
    LET q == n \div d
        r == n % d
    IN  IF 2 * r > d \/ (2 * r = d /\ q % 2 = 1) THEN q + 1 ELSE q

\* x ** 2 of a float of x ulps, in ulps
FSquare(x) == RoundDiv(x * x, MinSubnormalInv)

\* largest r with r * r <= n
RECURSIVE ISqrtFrom(_, _)
ISqrtFrom(n, r) == IF (r + 1) * (r + 1) > n THEN r ELSE ISqrtFrom(n, r + 1)

\* x ** 0.5 of a float of x ulps, in ulps, rounded to nearest
FSqrt(x) ==
    LET n == x * MinSubnormalInv
        r == ISqrtFrom(n, 0)
    IN  IF n > r * r + r THEN r + 1 ELSE r

RECURSIVE SumTo(_, _)
SumTo(v, n) == IF n = 0 THEN 0 ELSE v[n] + SumTo(v, n - 1)

\* tensor.mean(): the sum of the components divided by their number
FMean(v) == RoundDiv(SumTo(v, Dim), Dim)

\* variant: the distance is returned without the minus sign
BertDistance_Positive(completion_embedding, prompt_embedding) ==
    FSqrt(FMean([d \in 1..Dim |->
                   FSquare(completion_embedding[d] - prompt_embedding[d])]))

\* float(-(((completion_embedding - prompt_embedding) ** 2).mean() ** 0.5))
BertDistance(completion_embedding, prompt_embedding) ==
    0 - FSqrt(FMean([d \in 1..Dim |->
                       FSquare(completion_embedding[d] - prompt_embedding[d])]))

\* the encoder's weights are fixed: one embedding per text
InitBert ==
    /\ emb \in [Texts -> [1..Dim -> (0 - MaxComp)..MaxComp]]
    /\ bargs = Nothing
    /\ bscore = None
    /\ bertTable = [c \in Completions |-> 0]
    /\ mpnetTable = [c \in Completions |-> 10000]
    /\ pc = "idle"
    /\ completions = <<>>
    /\ k = 1
    /\ reward_events = <<>>
    /\ reward_event = RelevanceRewardEvent
    /\ i = 1
    /\ diff = None
    /\ result = Nothing
    /\ outcome = "none"
    /\ trace = <<>>
    /\ gates = <<>>
    /\ first = [c \in Completions |-> Nothing]
    /\ last = Nothing
    /\ normIn = <<>>
    /\ normOut = <<>>

\* BertRelevanceRewardModel.reward(prompt, completion)
BertReward ==
    /\ \E prompt \in Texts, completion \in Texts :
          /\ bargs' = Some(<<prompt, completion>>)
          /\ bscore' = BertDistance(emb[completion], emb[prompt])
    /\ UNCHANGED <<emb, composerVars, normVars>>

NextBert == BertReward

SpecBert == InitBert /\ [][NextBert]_vars

----------------------------------------------------------------------------
(* Properties *)

\* the thresholds as the specification states them, in units of 1/10000
BertThreshold == -246
MpnetThreshold == 3000

\* the positions of the thread inside reward()
InReward == {"score", "check", "record", "ret"}

\* the list the last call returned
Returned == result[1]

\* C1: the event reward() returns has reward 0 if the Token-Distance score is
\* strictly below -0.0246 or the Sentence-Similarity score strictly below 0.3,
\* and reward 1 otherwise (a score equal to its threshold does not reject).
C1_GateTable ==
    last # Nothing =>
        LET c == last[1]
            ev == last[2]
            rejects == bertTable[c] < BertThreshold \/ mpnetTable[c] < MpnetThreshold
        IN  ev.reward = IF rejects THEN 0 ELSE 1

\* C1 witness: one call returned a rejected event and an accepted one whose
\* two scores sit exactly on their thresholds
C1_Witness ==
    /\ outcome = "returned"
    /\ \E a, b \in 1..Len(Returned) :
          /\ Returned[a].reward = 0
          /\ Returned[b].reward = 1
          /\ Returned[b].bert_score = BertThreshold
          /\ Returned[b].mpnet_score = MpnetThreshold

\* C2: a get_rewards call that does not fail returns exactly one event per
\* completion, the event at index j being the one reward() produces for
\* completions[j] alone; the empty list gives the empty list.
C2_IndexAligned ==
    outcome = "returned" =>
        /\ Len(Returned) = Len(completions)
        /\ \A j \in 1..Len(completions) : Returned[j] = score_one(completions[j])

\* C2 witness: two different completions, the first rejected, the second accepted
C2_Witness ==
    /\ outcome = "returned"
    /\ Len(completions) = 2
    /\ completions[1] # completions[2]
    /\ Returned[1].reward = 0
    /\ Returned[2].reward = 1

\* C3: inside one reward() call, once reward is 0 it is 0 in every later
\* state of the call and in the event the call returns.
C3_Latch ==
    [][ (pc \in InReward /\ reward_event.reward = 0) =>
          IF pc = "ret"
            THEN last'[2].reward = 0
            ELSE (pc' \in InReward => reward_event'.reward = 0) ]_vars

\* C3 witness: the Token-Distance scorer rejected, the Sentence-Similarity
\* scorer cleared its threshold, and the returned event is rejected
C3_Witness ==
    /\ last # Nothing
    /\ last[2].bert_score # None
    /\ last[2].bert_score < BertThreshold
    /\ last[2].mpnet_score >= MpnetThreshold
    /\ last[2].reward = 0

Raises(e) ==
    (IF e[2] = BertName THEN bertTable ELSE mpnetTable)[completions[e[1]]] = Fail

\* C5: a scorer failure ends the whole get_rewards call in failure: nothing
\* is returned, the failing invocation is the last one and is made once, and
\* a call that returns a list met no failing scorer.
C5_FailFast ==
    /\ outcome = "raised" =>
          /\ result = Nothing
          /\ Len(trace) >= 1
          /\ Raises(trace[Len(trace)])
          /\ \A j \in 1..(Len(trace) - 1) : ~Raises(trace[j])
    /\ outcome = "returned" =>
          \A j \in 1..Len(completions) :
              /\ bertTable[completions[j]] # Fail
              /\ mpnetTable[completions[j]] # Fail

\* C5 witness: the call failed on its second completion, after one event was built
C5_Witness ==
    /\ outcome = "raised"
    /\ Len(trace) >= 3
    /\ trace[Len(trace)][1] = 2

\* C6: every event reward() returns for a completion equals the first event
\* it ever returned for that completion, whatever calls came in between.
C6_Deterministic ==
    last # Nothing => first[last[1]] = Some(last[2])

\* C6 witness: the same completion was scored twice in one call, after a
\* completion with another verdict was scored in an earlier position
C6_Witness ==
    /\ pc = "next"
    /\ Len(reward_events) = 2
    /\ completions[1] = completions[2]
    /\ \E c \in Completions : /\ first[c] # Nothing
                              /\ first[c][1].reward # reward_events[2].reward

C8_PassThrough ==
    [][ /\ normOut' = normIn'
        /\ (pc = "idle" /\ pc' = "idle") => UNCHANGED composerVars ]_vars

\* C8 witness: the rewards 0 and 1 of a returned list went through normalize_rewards
C8_Witness ==
    /\ outcome = "returned"
    /\ Len(Returned) = 2
    /\ Returned[1].reward = 0
    /\ Returned[2].reward = 1
    /\ normIn = <<0, 1>>
    /\ normOut = <<0, 1>>

Field(ev, m) ==
    IF m = 1 THEN ev.bert_score ELSE ev.mpnet_score

\* the check of models[m] has run for the event under construction
Checked(m) == m < i \/ (m = i /\ pc \in {"record", "ret"})

\* the loop body of models[m] has run to its end
StepDone(m) == m < i \/ pc = "ret"

\* C10 as stated: whenever reward is 0 because of sub-scorer m, the event
\* field of m already holds the raw score of m.
C10_Original ==
    pc \in InReward =>
        \A m \in 1..Len(models) :
            (Checked(m) /\ ModelReward(m, completions[k]) < bounds[m]) =>
                Field(reward_event, m) = ModelReward(m, completions[k])

\* C10 amended: the threshold check runs first and the score is recorded
\* right after it: between the two the field is still unset although reward
\* may already be 0, and once the loop body of sub-scorer m has ended the
\* field of m holds the raw score of m.
C10_CheckThenRecord ==
    pc \in InReward =>
        \A m \in 1..Len(models) :
            /\ StepDone(m) =>
                  Field(reward_event, m) = ModelReward(m, completions[k])
            /\ (m = i /\ pc = "record") =>
                  /\ Field(reward_event, m) = None
                  /\ diff < bounds[m] => reward_event.reward = 0

\* C10 witness: the check of the Token-Distance scorer has rejected and its
\* score is not in the event yet
C10_Witness ==
    /\ pc = "record"
    /\ i = 1
    /\ diff < bounds[i]
    /\ reward_event.reward = 0
    /\ reward_event.bert_score = None
====
